---- MODULE Spec2Model ----
(***************************************************************************)
(* State-machine model of the inter-thread primitives of the repository:   *)
(*   - the bounded SPSC ring buffer of src/src/lfqueue/fifo.rs             *)
(*     (Producer / Consumer handles, Pusher / Popper scoped accessors);    *)
(*   - the unbounded linked-list queue of                                  *)
(*     src/src/lfqueue/lockfreequeue.rs (LockFreeQueue push / pop / Drop); *)
(*   - the futex Mutex, Condvar and RwLock of src/src/mutex.rs,            *)
(*     condvar.rs and rwlock.rs, and the Arc of src/src/arc.rs;            *)
(*   - the blocking Channel of src/src/channel.rs.                         *)
(* Atomic loads, stores and compare-exchanges are single steps; a handler  *)
(* made of several shared-memory accesses is cut at those accesses. The    *)
(* atomics are interleaved sequentially consistently: the Acquire/Release  *)
(* pairs of the code order each slot or node access with the cursor or     *)
(* pointer that publishes it.                                              *)
(***************************************************************************)
EXTENDS Integers, Sequences, FiniteSets

\* ------------------------------------------------------------------ bounds

\* Largest ring-buffer capacity explored (fifo::new takes any capacity > 0).
MaxCapacity == 2

\* Number of Pusher accessors the producer may obtain and release.
MaxPush == 3

\* Threads that increment a counter under the Mutex, and the number of
\* `*m.lock() += 1` each of them runs.
NumLockThreads == 3
LocksPerThread == 2

\* Width in bits the model gives the counter of the Condvar (AtomicU32): wide
\* enough that the notifications of a run cannot wrap it around.
CounterBits == 4

\* Threads that share one Arc, and the largest number of handles alive at once.
NumArcThreads == 3
MaxHandles == 4

\* Threads that share the RwLock, and the number of read or write calls each
\* of them makes.
NumRwThreads == 3
RwOpsPerThread == 2

\* Width in bits the model gives the state word of the RwLock (AtomicU32).
StateBits == 3

\* Producer threads and consumer threads sharing the linked-list queue.
NumProducers == 1
NumConsumers == 2

\* Calls of push and of pop each thread may make.
PushesPerThread == 3
PopsPerThread == 2

\* Threads that send on and receive from the Channel, and the number of calls
\* of send, or of receive, each of them makes.
NumSenders == 2
NumReceivers == 2
SendsPerThread == 2
ReceivesPerThread == 2

\* Number of distinct node addresses the allocator can hand out; a freed
\* address may be handed out again.
MaxNodes == 3

\* ------------------------------------------------------------ ring buffer

VARIABLES
    capacity,       \* Shared.capacity
    buffer,         \* Shared.buffer: slot index -> [init, val] (MaybeUninit<T>)
    shared_head,    \* Shared.head (AtomicU64)
    shared_tail,    \* Shared.tail (AtomicU64)
    producer_head,  \* Producer.head
    cache_tail,     \* Producer.cache_tail
    consumer_tail,  \* Consumer.tail
    cache_head,     \* Consumer.cache_head
    ppc,            \* producer: "idle" | "pusher" (holds a Pusher) | "written"
    cpc,            \* consumer: "idle" | "popper" | "read" | "slot_dropped"
    cmode,          \* Consumer handle: "live" | "dropping" | "dropped"
    push_result,    \* what the last Producer::push returned: "none" | "ok" | "full"
    pop_result,     \* what the last Consumer::pop returned: "none" | "some" | "empty"
    to_send,        \* the value the producer's caller holds and will write next
    got,            \* what the consumer read through its Poppers, in order:
                    \* [pos: the cursor position of the Popper, val: the value read]
    written,        \* cursor positions whose slot was written through a Pusher
    destroyed,      \* value -> number of times its destructor ran
    ring_ub,        \* an uninitialized slot was read or destroyed
    shared_owners   \* the handles that still hold the Arc<Shared>: a subset of
                    \* {"producer", "consumer"}; Shared is freed when it is empty

ring_vars == <<capacity, buffer, shared_head, shared_tail, producer_head,
               cache_tail, consumer_tail, cache_head, ppc, cpc, cmode,
               push_result, pop_result, to_send, got, written, destroyed,
               ring_ub, shared_owners>>

\* ------------------------------------------------------ linked-list queue

VARIABLES
    q_head,         \* LockFreeQueue.head (AtomicPtr<Node<T>>)
    q_tail,         \* LockFreeQueue.tail (AtomicPtr<Node<T>>)
    node_next,      \* address -> Node.next, the memory at that address
    node_data,      \* address -> Node.data (Option<T>), the memory at that address
    allocated,      \* addresses that are live heap allocations
    pc,             \* thread -> its place in push / pop / drop
    new_node_ptr,   \* thread -> local new_node_ptr of push
    head_ptr,       \* thread -> local head_ptr of pop
    tail_ptr,       \* thread -> local tail_ptr of push / pop
    next_ptr,       \* thread -> local next_ptr of push / pop
    data_read,      \* thread -> what ptr::read(data) gave pop (Option<T>)
    pushers,        \* the threads that call push
    poppers,        \* the threads that call pop
    q_state,        \* the queue: "live" | "dropping" | "dropped"
    pushed,         \* thread -> number of push calls it has begun
    pops,           \* thread -> number of pop calls it has begun
    claimed,        \* payload of the successor node at each successful CAS of head, in order
    returned,       \* payload -> number of times pop returned it to a caller
    destroyed_q,    \* payload -> number of times its destructor ran inside the queue
    uaf,            \* a thread has dereferenced a node that was not allocated
    double_free,    \* a node that was not allocated has been freed
    enq_before      \* thread -> the payloads whose push had returned, and which
                    \* no pop had yet claimed or returned, when the thread's
                    \* current pop call began

queue_vars == <<q_head, q_tail, node_next, node_data, allocated, pc,
                new_node_ptr, head_ptr, tail_ptr, next_ptr, data_read, pushers,
                poppers, q_state, pushed, pops, claimed, returned, destroyed_q, uaf,
                double_free, enq_before>>

\* ------------------------------------------------------ mutex and condvar

VARIABLES
    m_state,        \* Mutex.state: 0 unlocked, 1 locked, 2 locked with waiters
    m_value,        \* Mutex.value, the protected data (a counter or a flag)
    m_waiters,      \* the threads blocked in wait(&state, 2)
    m_pc,           \* thread -> its place in lock / the guarded code / wait
    m_role,         \* thread -> what it runs: "incrementer" | "waiter" |
                    \* "setter" | "notifier" | "none"
    m_local,        \* thread -> the value it read through its Guard
    m_locks,        \* thread -> number of runs of its guarded code it has begun
    cv_counter,     \* Condvar.counter
    cv_waiters,     \* the threads blocked in wait(&counter, value)
    cv_value,       \* thread -> local value of Condvar::wait
    cv_notified     \* thread -> a notify has incremented the counter since the
                    \* thread loaded it in its current Condvar::wait

mutex_vars == <<m_state, m_value, m_waiters, m_pc, m_role, m_local, m_locks,
                cv_counter, cv_waiters, cv_value, cv_notified>>

\* ----------------------------------------------------------------- rwlock

VARIABLES
    rw_state,       \* RwLock.state: the number of readers, or u32::MAX
    rw_waiters,     \* the threads blocked in wait(&state, ..)
    rw_pc,          \* thread -> its place in read / write / the guard's drop
    rw_s,           \* thread -> local s of read, or of the Err(s) of write
    rw_ops,         \* thread -> number of read and write calls it has begun
    rw_active,      \* the threads that use the RwLock
    rw_panicked     \* the assert "too many readers" has failed

rw_vars == <<rw_state, rw_waiters, rw_pc, rw_s, rw_ops, rw_active, rw_panicked>>

\* -------------------------------------------------------------------- arc

VARIABLES
    arc_count,      \* ArcData.ref_count
    arc_handles,    \* thread -> number of live Arc handles it owns
    arc_pc,         \* thread -> "idle" | "freeing" (its drop took the count
                    \* from 1) | "mut" (it holds the &mut T of get_mut)
    arc_freed,      \* number of times the ArcData was freed and the shared
                    \* value destroyed
    arc_data        \* ArcData.data: the thread that wrote it last (0: as created)

arc_vars == <<arc_count, arc_handles, arc_pc, arc_freed, arc_data>>

\* ---------------------------------------------------------------- channel

VARIABLES
    ch_queue,       \* Channel.queue: the VecDeque inside the Mutex, front first
    ch_holder,      \* the thread that holds the MutexGuard of queue (0: none)
    ch_waiters,     \* the threads blocked in item_ready.wait
    ch_pc,          \* thread -> its place in send / receive
    ch_sends,       \* thread -> number of send calls it has begun
    ch_recvs,       \* thread -> number of receive calls it has begun
    ch_sent,        \* the messages in the order send put them into the queue
    ch_received     \* the messages in the order receive took them out

ch_vars == <<ch_queue, ch_holder, ch_waiters, ch_pc, ch_sends, ch_recvs, ch_sent,
             ch_received>>

\* What an action of one component leaves alone.
non_ring_vars == <<queue_vars, mutex_vars, rw_vars, arc_vars, ch_vars>>

non_queue_vars == <<ring_vars, mutex_vars, rw_vars, arc_vars, ch_vars>>

non_mutex_vars == <<ring_vars, queue_vars, rw_vars, arc_vars, ch_vars>>

non_rw_vars == <<ring_vars, queue_vars, mutex_vars, arc_vars, ch_vars>>

non_arc_vars == <<ring_vars, queue_vars, mutex_vars, rw_vars, ch_vars>>

non_ch_vars == <<ring_vars, queue_vars, mutex_vars, rw_vars, arc_vars>>

vars == <<ring_vars, queue_vars, mutex_vars, rw_vars, arc_vars, ch_vars>>

\* The values the producer's caller sends: 0, 1, 2, ...
Values == 0 .. (MaxPush - 1)

\* MaybeUninit::uninit()
UninitSlot == [init |-> FALSE, val |-> 0]

\* MaybeUninit holding v
InitSlot(v) == [init |-> TRUE, val |-> v]

\* index = cursor % capacity
SlotIndex(cursor, cap) == cursor % cap

\* A full check that lets one element too many in.
IsFullOffByOne(head, tail, cap) == head - tail = cap + 1

\* self.head - self.cache_tail == self.shared.capacity
IsFull(head, tail, cap) == head - tail = cap

\* An empty check written with the wrong comparison.
IsEmptyWrongCompare(tail, head) == tail > head

\* self.tail == self.cache_head
IsEmpty(tail, head) == tail = head

\* A reload that keeps the stale cached cursor instead of loading the shared one.
StaleTail(cached, shared) == cached

\* A reload that returns a tail the consumer has not reached yet.
AheadTail(cached, shared) == shared + 1

\* self.shared.tail.0.load(Ordering::Acquire)
AcquireLoadTail(cached, shared) == shared

\* A reload that keeps the stale cached cursor instead of loading the shared one.
StaleHead(cached, shared) == cached

\* self.shared.head.0.load(Ordering::Acquire)
AcquireLoadHead(cached, shared) == shared

\* fifo::new(cap): every slot uninitialized, every cursor 0.
InitRingOf(cap) ==
    /\ capacity = cap
    /\ buffer = [i \in 0 .. (capacity - 1) |-> UninitSlot]
    /\ shared_head = 0
    /\ shared_tail = 0
    /\ producer_head = 0
    /\ cache_tail = 0
    /\ consumer_tail = 0
    /\ cache_head = 0
    /\ ppc = "idle"
    /\ cpc = "idle"
    /\ cmode = "live"
    /\ push_result = "none"
    /\ pop_result = "none"
    /\ to_send = 0
    /\ got = <<>>
    /\ written = {}
    /\ destroyed = [v \in Values |-> 0]
    /\ ring_ub = FALSE
    /\ shared_owners = {"producer", "consumer"}

\* Producer::push: the full check against the cached tail, the reload of the
\* shared tail on a cache miss, and the Pusher handed out otherwise.
Push ==
    /\ "producer" \in shared_owners
    /\ ppc = "idle"
    /\ producer_head < MaxPush
    /\ IF IsFull(producer_head, cache_tail, capacity)
         THEN /\ cache_tail' = AcquireLoadTail(cache_tail, shared_tail)
              /\ IF IsFull(producer_head, cache_tail', capacity)
                   THEN /\ push_result' = "full"
                        /\ ppc' = "idle"
                   ELSE /\ push_result' = "ok"
                        /\ ppc' = "pusher"
         ELSE /\ cache_tail' = cache_tail
              /\ push_result' = "ok"
              /\ ppc' = "pusher"
    /\ UNCHANGED <<capacity, buffer, shared_head, shared_tail, producer_head,
                   consumer_tail, cache_head, cpc, cmode, pop_result, to_send,
                   got, written, destroyed, ring_ub>>
    /\ UNCHANGED <<shared_owners, non_ring_vars>>

\* Pusher::write: (*self.slot).write(value); the Pusher is dropped afterwards.
PusherWrite ==
    /\ ppc = "pusher"
    /\ buffer' = [buffer EXCEPT ![SlotIndex(producer_head, capacity)] = InitSlot(to_send)]
    /\ written' = written \cup {producer_head}
    /\ to_send' = to_send + 1
    /\ ppc' = "written"
    /\ UNCHANGED <<capacity, shared_head, shared_tail, producer_head, cache_tail,
                   consumer_tail, cache_head, cpc, cmode, push_result, pop_result,
                   got, destroyed, ring_ub>>
    /\ UNCHANGED <<shared_owners, non_ring_vars>>

\* Drop for Pusher: head += 1 and the release store of the shared head. It
\* runs at the end of write, and also when the caller lets the Pusher go out
\* of scope without having called write.
PusherDrop ==
    /\ ppc \in {"pusher", "written"}
    /\ producer_head' = producer_head + 1
    /\ shared_head' = producer_head'
    /\ ppc' = "idle"
    /\ UNCHANGED <<capacity, buffer, shared_tail, cache_tail, consumer_tail,
                   cache_head, cpc, cmode, push_result, pop_result, to_send, got,
                   written, destroyed, ring_ub>>
    /\ UNCHANGED <<shared_owners, non_ring_vars>>

\* Consumer::pop: the empty check against the cached head, the reload of the
\* shared head on a cache miss, and the Popper handed out otherwise.
pop ==
    /\ cpc = "idle"
    /\ IF IsEmpty(consumer_tail, cache_head)
         THEN /\ cache_head' = AcquireLoadHead(cache_head, shared_head)
              /\ IF IsEmpty(consumer_tail, cache_head')
                   THEN /\ pop_result' = "empty"
                        /\ cpc' = "idle"
                   ELSE /\ pop_result' = "some"
                        /\ cpc' = "popper"
         ELSE /\ cache_head' = cache_head
              /\ pop_result' = "some"
              /\ cpc' = "popper"
    /\ UNCHANGED <<capacity, buffer, shared_head, shared_tail, producer_head,
                   cache_tail, consumer_tail, ppc, push_result, to_send, got,
                   written, destroyed, ring_ub>>
    /\ UNCHANGED <<shared_owners, non_ring_vars>>

\* A call of Consumer::pop by the consumer's owner.
Pop ==
    /\ cmode = "live"
    /\ pop
    /\ UNCHANGED cmode

\* Deref for Popper: assume_init_ref on the slot. Reading a slot that holds no
\* value is a read of uninitialized memory: any value may come out.
PopperDeref ==
    /\ cpc = "popper"
    /\ cmode = "live"
    /\ LET slot == buffer[SlotIndex(consumer_tail, capacity)] IN
         IF slot.init
           THEN /\ got' = Append(got, [pos |-> consumer_tail, val |-> slot.val])
                /\ ring_ub' = ring_ub
           ELSE /\ \E g \in Values :
                     got' = Append(got, [pos |-> consumer_tail, val |-> g])
                /\ ring_ub' = TRUE
    /\ cpc' = "read"
    /\ UNCHANGED <<capacity, buffer, shared_head, shared_tail, producer_head,
                   cache_tail, consumer_tail, cache_head, ppc, cmode, push_result,
                   pop_result, to_send, written, destroyed>>
    /\ UNCHANGED <<shared_owners, non_ring_vars>>

\* Drop for Popper, first half: assume_init_drop runs the element's destructor
\* and leaves the slot without a value. On a slot that holds no value the
\* destructor runs on whatever bytes are there: nothing recognisable, or the
\* bytes of an element that was already destroyed.
PopperDropSlot ==
    /\ cpc \in {"popper", "read"}
    /\ LET i == SlotIndex(consumer_tail, capacity) IN
         /\ IF buffer[i].init
              THEN /\ destroyed' = [destroyed EXCEPT ![buffer[i].val] = @ + 1]
                   /\ ring_ub' = ring_ub
              ELSE /\ \/ destroyed' = destroyed
                      \/ \E g \in Values : destroyed' = [destroyed EXCEPT ![g] = @ + 1]
                   /\ ring_ub' = TRUE
         /\ buffer' = [buffer EXCEPT ![i] = UninitSlot]
    /\ cpc' = "slot_dropped"
    /\ UNCHANGED <<capacity, shared_head, shared_tail, producer_head, cache_tail,
                   consumer_tail, cache_head, ppc, cmode, push_result, pop_result,
                   to_send, got, written>>
    /\ UNCHANGED <<shared_owners, non_ring_vars>>

\* Drop for Popper, second half: tail += 1 and the release store of the
\* shared tail.
PopperDropStore ==
    /\ cpc = "slot_dropped"
    /\ consumer_tail' = consumer_tail + 1
    /\ shared_tail' = consumer_tail'
    /\ cpc' = "idle"
    /\ UNCHANGED <<capacity, buffer, shared_head, producer_head, cache_tail,
                   cache_head, ppc, cmode, push_result, pop_result, to_send, got,
                   written, destroyed, ring_ub>>
    /\ UNCHANGED <<shared_owners, non_ring_vars>>

\* Drop for Consumer begins: while self.pop().is_some() {}
ConsumerDrop ==
    /\ cmode = "live"
    /\ cpc = "idle"
    /\ cmode' = "dropping"
    /\ UNCHANGED <<capacity, buffer, shared_head, shared_tail, producer_head,
                   cache_tail, consumer_tail, cache_head, ppc, cpc, push_result,
                   pop_result, to_send, got, written, destroyed, ring_ub>>
    /\ UNCHANGED <<shared_owners, non_ring_vars>>

\* A Drop for Consumer that does not drain: it ends at once, whatever the
\* buffer still holds.
ConsumerDropNoDrain ==
    /\ cmode = "dropping"
    /\ cpc = "idle"
    /\ cmode' = "dropped"
    /\ UNCHANGED <<capacity, buffer, shared_head, shared_tail, producer_head,
                   cache_tail, consumer_tail, cache_head, ppc, cpc, push_result,
                   pop_result, to_send, got, written, destroyed, ring_ub>>
    /\ UNCHANGED <<shared_owners, non_ring_vars>>

\* One pop of the drain loop of Drop for Consumer; its Popper is a temporary,
\* released at once by PopperDropSlot and PopperDropStore. The loop ends on
\* the first None.
ConsumerDropPop ==
    /\ cmode = "dropping"
    /\ pop
    /\ cmode' = IF pop_result' = "empty" THEN "dropped" ELSE "dropping"

\* The drop glue of Consumer after Drop::drop has returned: the field shared
\* (Arc<Shared>) is released. Shared has no Drop of its own: when the last
\* Arc goes, the Vec of MaybeUninit slots is freed as raw memory and no
\* element destructor runs.
ConsumerRelease ==
    /\ cmode = "dropped"
    /\ "consumer" \in shared_owners
    /\ shared_owners' = shared_owners \ {"consumer"}
    /\ UNCHANGED <<capacity, buffer, shared_head, shared_tail, producer_head,
                   cache_tail, consumer_tail, cache_head, ppc, cpc, cmode,
                   push_result, pop_result, to_send, got, written, destroyed,
                   ring_ub>>
    /\ UNCHANGED non_ring_vars

\* Dropping the Producer (it has no Drop impl): only its Arc<Shared> is
\* released. No Pusher is outstanding, since a Pusher borrows the Producer.
ProducerDrop ==
    /\ ppc = "idle"
    /\ "producer" \in shared_owners
    /\ shared_owners' = shared_owners \ {"producer"}
    /\ UNCHANGED <<capacity, buffer, shared_head, shared_tail, producer_head,
                   cache_tail, consumer_tail, cache_head, ppc, cpc, cmode,
                   push_result, pop_result, to_send, got, written, destroyed,
                   ring_ub>>
    /\ UNCHANGED non_ring_vars

\* std::ptr::null_mut()
NULL == 0

\* The thread that owns the queue value: it calls LockFreeQueue::new and, in
\* the end, drops the queue.
Owner == 0

Producers == 1 .. NumProducers

Consumers == (NumProducers + 1) .. (NumProducers + NumConsumers)

Threads == 0 .. (NumProducers + NumConsumers)

\* The addresses Box::new can return.
NodeIds == 1 .. MaxNodes

\* Option<T>: None, Some(v)
None == <<>>

Some(v) == <<v>>

\* The payloads are uniquely tagged: the k-th value enqueued by thread t.
Tag(t, k) == <<t, k>>

\* Bytes that are no enqueued payload: what freed memory may hold.
Garbage == <<0, 0>>

Payloads == {Tag(t, k) : t \in Threads, k \in 1 .. PushesPerThread} \cup {Garbage}

\* AtomicPtr::compare_exchange(expected, new): the value stored afterwards.
CompareExchange(current, expected, new) == IF current = expected THEN new ELSE current

\* A deallocation that forgets to release the address.
LeakNode(alloc, n) == alloc

\* drop(Box::from_raw(n)): the address goes back to the allocator.
Dealloc(alloc, n) == alloc \ {n}

\* One more run of a destructor on the payload held in opt, if any.
Bump(f, opt) == IF opt = None THEN f ELSE [f EXCEPT ![opt[1]] = @ + 1]

\* Dropping Box<Node<T>> drops Node.data: the payload the freed node's memory
\* still holds (pop copies the payload out with ptr::read and leaves the
\* Option as Some).
PayloadFreed(n) == IF n \in allocated THEN node_data[n] ELSE None

\* Freeing node n. The allocator may leave the freed memory as it is or write
\* into it: afterwards the next field holds the old pointer or zeroed bytes,
\* the data field the old payload or bytes that are no enqueued payload. What
\* a later read through a dangling pointer sees is one of these, or the
\* fields of the node a later Box::new placed at the same address. The
\* destructor count of the payload is the caller's part.
Free(n) ==
    /\ double_free' = (double_free \/ n \notin allocated)
    /\ allocated' = Dealloc(allocated, n)
    /\ \E nx \in {node_next[n], NULL}, d \in {node_data[n], Some(Garbage)} :
         /\ node_next' = [node_next EXCEPT ![n] = nx]
         /\ node_data' = [node_data EXCEPT ![n] = d]

\* LockFreeQueue::new: one sentinel node, head = tail = the sentinel.
InitQueue(P, C) ==
    /\ q_head = 1
    /\ q_tail = 1
    /\ node_next = [n \in NodeIds |-> NULL]
    /\ node_data = [n \in NodeIds |-> None]
    /\ allocated = {1}
    /\ pc = [t \in Threads |-> "idle"]
    /\ new_node_ptr = [t \in Threads |-> NULL]
    /\ head_ptr = [t \in Threads |-> NULL]
    /\ tail_ptr = [t \in Threads |-> NULL]
    /\ next_ptr = [t \in Threads |-> NULL]
    /\ data_read = [t \in Threads |-> None]
    /\ pushers = P
    /\ poppers = C
    /\ q_state = "live"
    /\ pushed = [t \in Threads |-> 0]
    /\ pops = [t \in Threads |-> 0]
    /\ claimed = <<>>
    /\ returned = [v \in Payloads |-> 0]
    /\ destroyed_q = [v \in Payloads |-> 0]
    /\ uaf = FALSE
    /\ double_free = FALSE
    /\ enq_before = [t \in Threads |-> {}]

\* push, lines 31-36: Box::new of the node carrying the payload.
PushAlloc(t) ==
    /\ q_state = "live"
    /\ t \in pushers
    /\ pc[t] = "idle"
    /\ pushed[t] < PushesPerThread
    /\ \E n \in NodeIds \ allocated :
         /\ allocated' = allocated \cup {n}
         /\ node_data' = [node_data EXCEPT ![n] = Some(Tag(t, pushed[t] + 1))]
         /\ node_next' = [node_next EXCEPT ![n] = NULL]
         /\ new_node_ptr' = [new_node_ptr EXCEPT ![t] = n]
    /\ pushed' = [pushed EXCEPT ![t] = @ + 1]
    /\ pc' = [pc EXCEPT ![t] = "push_load_tail"]
    /\ UNCHANGED <<q_head, q_tail, head_ptr, tail_ptr, next_ptr, data_read,
                   pushers, poppers, q_state, pops, claimed, returned,
                   destroyed_q, uaf, double_free>>
    /\ UNCHANGED <<enq_before, non_queue_vars>>

\* push, line 39: tail_ptr = self.tail.load(Acquire)
PushLoadTail(t) ==
    /\ pc[t] = "push_load_tail"
    /\ tail_ptr' = [tail_ptr EXCEPT ![t] = q_tail]
    /\ pc' = [pc EXCEPT ![t] = "push_load_next"]
    /\ UNCHANGED <<q_head, q_tail, node_next, node_data, allocated, new_node_ptr,
                   head_ptr, next_ptr, data_read, pushers, poppers, q_state,
                   pushed, pops, claimed, returned, destroyed_q, uaf, double_free>>
    /\ UNCHANGED <<enq_before, non_queue_vars>>

\* push, lines 40-41: next_ptr = (*tail_ptr).next.load(Acquire)
PushLoadNext(t) ==
    /\ pc[t] = "push_load_next"
    /\ next_ptr' = [next_ptr EXCEPT ![t] = node_next[tail_ptr[t]]]
    /\ uaf' = (uaf \/ tail_ptr[t] \notin allocated)
    /\ pc' = [pc EXCEPT ![t] = "push_cas"]
    /\ UNCHANGED <<q_head, q_tail, node_next, node_data, allocated, new_node_ptr,
                   head_ptr, tail_ptr, data_read, pushers, poppers, q_state,
                   pushed, pops, claimed, returned, destroyed_q, double_free>>
    /\ UNCHANGED <<enq_before, non_queue_vars>>

\* push, lines 43-69: with a stale tail, help it on (CAS of self.tail) and
\* retry; otherwise the CAS that links the new node after the tail node.
PushCas(t) ==
    /\ pc[t] = "push_cas"
    /\ IF next_ptr[t] # NULL
         THEN /\ q_tail' = CompareExchange(q_tail, tail_ptr[t], next_ptr[t])
              /\ pc' = [pc EXCEPT ![t] = "push_load_tail"]
              /\ UNCHANGED <<node_next, uaf>>
         ELSE /\ node_next' = [node_next EXCEPT ![tail_ptr[t]] =
                                 CompareExchange(@, next_ptr[t], new_node_ptr[t])]
              /\ uaf' = (uaf \/ tail_ptr[t] \notin allocated)
              /\ pc' = [pc EXCEPT ![t] =
                          IF node_next[tail_ptr[t]] = next_ptr[t]
                            THEN "push_swing" ELSE "push_load_tail"]
              /\ UNCHANGED q_tail
    /\ UNCHANGED <<q_head, node_data, allocated, new_node_ptr, head_ptr,
                   tail_ptr, next_ptr, data_read, pushers, poppers, q_state,
                   pushed, pops, claimed, returned, destroyed_q, double_free>>
    /\ UNCHANGED <<enq_before, non_queue_vars>>

\* push, lines 60-68: the best-effort CAS of self.tail to the new node; push
\* returns.
PushSwing(t) ==
    /\ pc[t] = "push_swing"
    /\ q_tail' = CompareExchange(q_tail, tail_ptr[t], new_node_ptr[t])
    /\ pc' = [pc EXCEPT ![t] = "idle"]
    /\ new_node_ptr' = [new_node_ptr EXCEPT ![t] = NULL]
    /\ tail_ptr' = [tail_ptr EXCEPT ![t] = NULL]
    /\ next_ptr' = [next_ptr EXCEPT ![t] = NULL]
    /\ UNCHANGED <<q_head, node_next, node_data, allocated, head_ptr, data_read,
                   pushers, poppers, q_state, pushed, pops, claimed, returned,
                   destroyed_q, uaf, double_free>>
    /\ UNCHANGED <<enq_before, non_queue_vars>>

\* The payloads whose push has returned.
PushReturned ==
    {v \in Payloads :
        /\ v[1] \in pushers
        /\ v[2] >= 1
        /\ \/ v[2] < pushed[v[1]]
           \/ /\ v[2] = pushed[v[1]]
              /\ pc[v[1]] \notin {"push_load_tail", "push_load_next", "push_cas",
                                  "push_swing"}}

\* The payloads some pop has claimed with its CAS of head or has returned.
Dequeued ==
    {v \in Payloads : returned[v] > 0 \/ \E i \in 1 .. Len(claimed) : claimed[i] = Some(v)}

\* The values the queue holds for a pop that starts now.
Undequeued == PushReturned \ Dequeued

\* A thread calls pop.
PopCall(t) ==
    /\ q_state = "live"
    /\ t \in poppers
    /\ pc[t] = "idle"
    /\ pops[t] < PopsPerThread
    /\ pops' = [pops EXCEPT ![t] = @ + 1]
    /\ enq_before' = [enq_before EXCEPT ![t] = Undequeued]
    /\ pc' = [pc EXCEPT ![t] = "pop_load_head"]
    /\ UNCHANGED <<q_head, q_tail, node_next, node_data, allocated, new_node_ptr,
                   head_ptr, tail_ptr, next_ptr, data_read, pushers, poppers,
                   q_state, pushed, claimed, returned, destroyed_q, uaf,
                   double_free>>
    /\ UNCHANGED non_queue_vars

\* pop, line 75: head_ptr = self.head.load(Acquire)
PopLoadHead(t) ==
    /\ pc[t] = "pop_load_head"
    /\ head_ptr' = [head_ptr EXCEPT ![t] = q_head]
    /\ pc' = [pc EXCEPT ![t] = "pop_load_tail"]
    /\ UNCHANGED <<q_head, q_tail, node_next, node_data, allocated, new_node_ptr,
                   tail_ptr, next_ptr, data_read, pushers, poppers, q_state,
                   pushed, pops, claimed, returned, destroyed_q, uaf, double_free>>
    /\ UNCHANGED <<enq_before, non_queue_vars>>

\* pop, line 76: tail_ptr = self.tail.load(Acquire)
PopLoadTail(t) ==
    /\ pc[t] = "pop_load_tail"
    /\ tail_ptr' = [tail_ptr EXCEPT ![t] = q_tail]
    /\ pc' = [pc EXCEPT ![t] = "pop_load_next"]
    /\ UNCHANGED <<q_head, q_tail, node_next, node_data, allocated, new_node_ptr,
                   head_ptr, next_ptr, data_read, pushers, poppers, q_state,
                   pushed, pops, claimed, returned, destroyed_q, uaf, double_free>>
    /\ UNCHANGED <<enq_before, non_queue_vars>>

\* pop, lines 77-78: next_ptr = (*head_ptr).next.load(Acquire)
PopLoadNext(t) ==
    /\ pc[t] = "pop_load_next"
    /\ next_ptr' = [next_ptr EXCEPT ![t] = node_next[head_ptr[t]]]
    /\ uaf' = (uaf \/ head_ptr[t] \notin allocated)
    /\ pc' = [pc EXCEPT ![t] = "pop_check"]
    /\ UNCHANGED <<q_head, q_tail, node_next, node_data, allocated, new_node_ptr,
                   head_ptr, tail_ptr, data_read, pushers, poppers, q_state,
                   pushed, pops, claimed, returned, destroyed_q, double_free>>
    /\ UNCHANGED <<enq_before, non_queue_vars>>

\* pop, lines 80-99: head == tail with a null next returns None (which ends
\* the drain loop of Drop); head == tail with a next helps the tail on and
\* retries; a null next retries; otherwise next_node.data.as_ref().unwrap()
\* takes the reference to the payload (a panic if the node holds None).
PopCheck(t) ==
    /\ pc[t] = "pop_check"
    /\ IF head_ptr[t] = tail_ptr[t]
         THEN IF next_ptr[t] = NULL
                THEN /\ pc' = [pc EXCEPT ![t] =
                                 IF q_state = "dropping" THEN "drop_free_sentinel"
                                                         ELSE "idle"]
                     /\ head_ptr' = [head_ptr EXCEPT ![t] = NULL]
                     /\ tail_ptr' = [tail_ptr EXCEPT ![t] = NULL]
                     /\ UNCHANGED <<q_tail, uaf>>
                ELSE /\ q_tail' = CompareExchange(q_tail, tail_ptr[t], next_ptr[t])
                     /\ pc' = [pc EXCEPT ![t] = "pop_load_head"]
                     /\ UNCHANGED <<head_ptr, tail_ptr, uaf>>
         ELSE IF next_ptr[t] = NULL
                THEN /\ pc' = [pc EXCEPT ![t] = "pop_load_head"]
                     /\ UNCHANGED <<q_tail, head_ptr, tail_ptr, uaf>>
                ELSE /\ uaf' = (uaf \/ next_ptr[t] \notin allocated)
                     /\ pc' = [pc EXCEPT ![t] =
                                 IF node_data[next_ptr[t]] = None THEN "panicked"
                                                                  ELSE "pop_cas"]
                     /\ UNCHANGED <<q_tail, head_ptr, tail_ptr>>
    /\ UNCHANGED <<q_head, node_next, node_data, allocated, new_node_ptr,
                   next_ptr, data_read, pushers, poppers, q_state, pushed, pops,
                   claimed, returned, destroyed_q, double_free>>
    /\ enq_before' = [enq_before EXCEPT ![t] =
                         IF pc'[t] \in {"idle", "drop_free_sentinel"} THEN {} ELSE @]
    /\ UNCHANGED non_queue_vars

\* pop, lines 101-105: the CAS of self.head from head_ptr to next_ptr; the
\* winner claims the payload of the successor node.
PopCas(t) ==
    /\ pc[t] = "pop_cas"
    /\ q_head' = CompareExchange(q_head, head_ptr[t], next_ptr[t])
    /\ IF q_head = head_ptr[t]
         THEN /\ claimed' = Append(claimed, node_data[next_ptr[t]])
              /\ pc' = [pc EXCEPT ![t] = "pop_read"]
         ELSE /\ claimed' = claimed
              /\ pc' = [pc EXCEPT ![t] = "pop_load_head"]
    /\ UNCHANGED <<q_tail, node_next, node_data, allocated, new_node_ptr,
                   head_ptr, tail_ptr, next_ptr, data_read, pushers, poppers,
                   q_state, pushed, pops, returned, destroyed_q, uaf, double_free>>
    /\ UNCHANGED <<enq_before, non_queue_vars>>

\* pop, line 113: data = ptr::read(data), a bitwise copy out of the successor
\* node, whose data field stays Some.
PopRead(t) ==
    /\ pc[t] = "pop_read"
    /\ data_read' = [data_read EXCEPT ![t] = node_data[next_ptr[t]]]
    /\ uaf' = (uaf \/ next_ptr[t] \notin allocated)
    /\ pc' = [pc EXCEPT ![t] = "pop_free"]
    /\ UNCHANGED <<q_head, q_tail, node_next, node_data, allocated, new_node_ptr,
                   head_ptr, tail_ptr, next_ptr, pushers, poppers, q_state,
                   pushed, pops, claimed, returned, destroyed_q, double_free>>
    /\ UNCHANGED <<enq_before, non_queue_vars>>

\* pop, lines 106-118: drop(old_head_box) frees the former head, which drops
\* the payload its data field holds, and pop returns Some(data). In the drain
\* loop of Drop the returned value is dropped at once (while let Some(_)).
PopFree(t) ==
    /\ pc[t] = "pop_free"
    /\ Free(head_ptr[t])
    /\ IF q_state = "dropping"
         THEN /\ destroyed_q' = Bump(Bump(destroyed_q, PayloadFreed(head_ptr[t])),
                                     data_read[t])
              /\ returned' = returned
              /\ pc' = [pc EXCEPT ![t] = "pop_load_head"]
         ELSE /\ destroyed_q' = Bump(destroyed_q, PayloadFreed(head_ptr[t]))
              /\ returned' = Bump(returned, data_read[t])
              /\ pc' = [pc EXCEPT ![t] = "idle"]
    /\ head_ptr' = [head_ptr EXCEPT ![t] = NULL]
    /\ tail_ptr' = [tail_ptr EXCEPT ![t] = NULL]
    /\ next_ptr' = [next_ptr EXCEPT ![t] = NULL]
    /\ data_read' = [data_read EXCEPT ![t] = None]
    /\ UNCHANGED <<q_head, q_tail, new_node_ptr, pushers, poppers, q_state,
                   pushed, pops, claimed, uaf>>
    /\ enq_before' = [enq_before EXCEPT ![t] = {}]
    /\ UNCHANGED non_queue_vars

\* Drop for LockFreeQueue begins: the owner has exclusive access (no call is
\* in flight) and starts the loop while let Some(_) = self.pop() {}.
DropStart ==
    /\ q_state = "live"
    /\ \A t \in Threads : pc[t] \in {"idle", "panicked"}
    /\ pc[Owner] = "idle"
    /\ q_state' = "dropping"
    /\ pc' = [pc EXCEPT ![Owner] = "pop_load_head"]
    /\ UNCHANGED <<q_head, q_tail, node_next, node_data, allocated, new_node_ptr,
                   head_ptr, tail_ptr, next_ptr, data_read, pushers, poppers,
                   pushed, pops, claimed, returned, destroyed_q, uaf, double_free>>
    /\ UNCHANGED <<enq_before, non_queue_vars>>

\* Drop for LockFreeQueue, lines 134-138: the final sentinel is freed.
DropFreeSentinel ==
    /\ pc[Owner] = "drop_free_sentinel"
    /\ Free(q_head)
    /\ destroyed_q' = Bump(destroyed_q, PayloadFreed(q_head))
    /\ q_state' = "dropped"
    /\ pc' = [pc EXCEPT ![Owner] = "done"]
    /\ UNCHANGED <<q_head, q_tail, new_node_ptr, head_ptr, tail_ptr, next_ptr,
                   data_read, pushers, poppers, pushed, pops, claimed, returned,
                   uaf>>
    /\ UNCHANGED <<enq_before, non_queue_vars>>

NextQueue ==
    \/ \E t \in Threads : PushAlloc(t)
    \/ \E t \in Threads : PushLoadTail(t)
    \/ \E t \in Threads : PushLoadNext(t)
    \/ \E t \in Threads : PushCas(t)
    \/ \E t \in Threads : PushSwing(t)
    \/ \E t \in Threads : PopCall(t)
    \/ \E t \in Threads : PopLoadHead(t)
    \/ \E t \in Threads : PopLoadTail(t)
    \/ \E t \in Threads : PopLoadNext(t)
    \/ \E t \in Threads : PopCheck(t)
    \/ \E t \in Threads : PopCas(t)
    \/ \E t \in Threads : PopRead(t)
    \/ \E t \in Threads : PopFree(t)
    \/ DropStart
    \/ DropFreeSentinel

\* ------------------------------------------------------------------ mutex

LockThreads == 1 .. NumLockThreads

\* The places of a thread at which its Guard exists.
GuardPcs == {"holding", "loaded", "stored", "cv_enter", "cv_loaded"}

\* The threads that hold a Guard.
Guards == {t \in LockThreads : m_pc[t] \in GuardPcs}

\* A contended acquisition that takes the lock whatever the swap returned.
SwapAlwaysAcquires(old) == TRUE

\* lock_contended: state.swap(2, Acquire) != 0 keeps waiting; 0 acquires.
SwapAcquires(old) == old = 0

\* A release that never wakes a sleeper.
NeverWakes(old) == FALSE

\* Drop for Guard: state.swap(0, Release) == 2 calls wake_one.
ReleaseWakes(old) == old = 2

\* Mutex::new(value) and Condvar::new(), with the role of every thread.
InitMutex(role) ==
    /\ m_state = 0
    /\ m_value = 0
    /\ m_waiters = {}
    /\ m_pc = [t \in LockThreads |-> "idle"]
    /\ m_role = role
    /\ m_local = [t \in LockThreads |-> 0]
    /\ m_locks = [t \in LockThreads |-> 0]
    /\ cv_counter = 0
    /\ cv_waiters = {}
    /\ cv_value = [t \in LockThreads |-> 0]
    /\ cv_notified = [t \in LockThreads |-> FALSE]

\* A thread begins a run of its code that starts with m.lock().
LockCall(t) ==
    /\ m_role[t] \in {"incrementer", "waiter", "setter"}
    /\ m_pc[t] = "idle"
    /\ m_locks[t] < LocksPerThread
    /\ m_locks' = [m_locks EXCEPT ![t] = @ + 1]
    /\ m_pc' = [m_pc EXCEPT ![t] = "lock"]
    /\ UNCHANGED <<m_state, m_value, m_waiters, m_role, m_local, cv_counter,
                   cv_waiters, cv_value, cv_notified>>
    /\ UNCHANGED non_mutex_vars

\* Mutex::lock, lines 33-40: compare_exchange(0, 1); on failure lock_contended.
Lock(t) ==
    /\ m_pc[t] = "lock"
    /\ m_state' = CompareExchange(m_state, 0, 1)
    /\ m_pc' = [m_pc EXCEPT ![t] = IF m_state = 0 THEN "holding" ELSE "spin"]
    /\ UNCHANGED <<m_value, m_waiters, m_role, m_local, m_locks, cv_counter,
                   cv_waiters, cv_value, cv_notified>>
    /\ UNCHANGED non_mutex_vars

\* lock_contended, lines 45-51: the spin loop only loads the state and ends
\* after at most 100 iterations, whatever it read.
LockSpin(t) ==
    /\ m_pc[t] = "spin"
    /\ m_pc' = [m_pc EXCEPT ![t] = "contended_cas"]
    /\ UNCHANGED <<m_state, m_value, m_waiters, m_role, m_local, m_locks,
                   cv_counter, cv_waiters, cv_value, cv_notified>>
    /\ UNCHANGED non_mutex_vars

\* lock_contended, lines 53-58: compare_exchange(0, 1) once more.
LockContendedCas(t) ==
    /\ m_pc[t] = "contended_cas"
    /\ m_state' = CompareExchange(m_state, 0, 1)
    /\ m_pc' = [m_pc EXCEPT ![t] = IF m_state = 0 THEN "holding" ELSE "contended_swap"]
    /\ UNCHANGED <<m_value, m_waiters, m_role, m_local, m_locks, cv_counter,
                   cv_waiters, cv_value, cv_notified>>
    /\ UNCHANGED non_mutex_vars

\* lock_contended, line 60: while state.swap(2, Acquire) != 0
LockContendedSwap(t) ==
    /\ m_pc[t] = "contended_swap"
    /\ m_state' = 2
    /\ m_pc' = [m_pc EXCEPT ![t] =
                  IF SwapAcquires(m_state) THEN "holding" ELSE "contended_wait"]
    /\ UNCHANGED <<m_value, m_waiters, m_role, m_local, m_locks, cv_counter,
                   cv_waiters, cv_value, cv_notified>>
    /\ UNCHANGED non_mutex_vars

\* lock_contended, line 61: wait(state, 2) blocks if the state is 2 and
\* returns at once otherwise. (A spurious return would only add wake-ups.)
LockContendedWait(t) ==
    /\ m_pc[t] = "contended_wait"
    /\ IF m_state = 2
         THEN /\ m_waiters' = m_waiters \cup {t}
              /\ m_pc' = [m_pc EXCEPT ![t] = "asleep"]
         ELSE /\ m_waiters' = m_waiters
              /\ m_pc' = [m_pc EXCEPT ![t] = "contended_swap"]
    /\ UNCHANGED <<m_state, m_value, m_role, m_local, m_locks, cv_counter,
                   cv_waiters, cv_value, cv_notified>>
    /\ UNCHANGED non_mutex_vars

\* `*m.lock() += 1`, the read through DerefMut for Guard.
GuardRead(t) ==
    /\ m_role[t] = "incrementer"
    /\ m_pc[t] = "holding"
    /\ m_local' = [m_local EXCEPT ![t] = m_value]
    /\ m_pc' = [m_pc EXCEPT ![t] = "loaded"]
    /\ UNCHANGED <<m_state, m_value, m_waiters, m_role, m_locks, cv_counter,
                   cv_waiters, cv_value, cv_notified>>
    /\ UNCHANGED non_mutex_vars

\* `*m.lock() += 1`, the write through DerefMut for Guard.
GuardWrite(t) ==
    /\ m_pc[t] = "loaded"
    /\ m_value' = m_local[t] + 1
    /\ m_pc' = [m_pc EXCEPT ![t] = "stored"]
    /\ UNCHANGED <<m_state, m_waiters, m_role, m_local, m_locks, cv_counter,
                   cv_waiters, cv_value, cv_notified>>
    /\ UNCHANGED non_mutex_vars

\* Drop for Guard, line 82: state.swap(0, Release); the thread goes on to
\* wake_one if the swap returned 2, and to `after` otherwise.
SwapRelease(t, wake, after) ==
    /\ m_state' = 0
    /\ m_pc' = [m_pc EXCEPT ![t] = IF ReleaseWakes(m_state) THEN wake ELSE after]

\* Drop for Guard, line 83: wake_one(&state) unblocks one thread blocked in
\* wait(state, 2), if there is one; it goes back to the swap of line 60.
WakeOneLocker(t, after) ==
    IF m_waiters = {}
      THEN /\ m_pc' = [m_pc EXCEPT ![t] = after]
           /\ m_waiters' = m_waiters
      ELSE \E w \in m_waiters :
             /\ m_waiters' = m_waiters \ {w}
             /\ m_pc' = [m_pc EXCEPT ![t] = after, ![w] = "contended_swap"]

\* What a thread does after the Guard of its run is gone.
AfterGuard(t) == IF m_role[t] = "setter" THEN "notify_add" ELSE "idle"

\* Drop for Guard at the end of the guarded code.
GuardDrop(t) ==
    /\ m_pc[t] = "stored"
    /\ SwapRelease(t, "wake", AfterGuard(t))
    /\ UNCHANGED <<m_value, m_waiters, m_role, m_local, m_locks, cv_counter,
                   cv_waiters, cv_value, cv_notified>>
    /\ UNCHANGED non_mutex_vars

GuardDropWake(t) ==
    /\ m_pc[t] = "wake"
    /\ WakeOneLocker(t, AfterGuard(t))
    /\ UNCHANGED <<m_state, m_value, m_role, m_local, m_locks, cv_counter,
                   cv_waiters, cv_value, cv_notified>>
    /\ UNCHANGED non_mutex_vars

NextMutex ==
    \/ \E t \in LockThreads : LockCall(t)
    \/ \E t \in LockThreads : Lock(t)
    \/ \E t \in LockThreads : LockSpin(t)
    \/ \E t \in LockThreads : LockContendedCas(t)
    \/ \E t \in LockThreads : LockContendedSwap(t)
    \/ \E t \in LockThreads : LockContendedWait(t)
    \/ \E t \in LockThreads : GuardRead(t)
    \/ \E t \in LockThreads : GuardWrite(t)
    \/ \E t \in LockThreads : GuardDrop(t)
    \/ \E t \in LockThreads : GuardDropWake(t)

\* No thread uses the mutex or the condvar.
InitMutexUnused == InitMutex([t \in LockThreads |-> "none"])

\* ---------------------------------------------------------------- condvar

\* The places of a thread inside Condvar::wait after it has loaded the
\* counter and before wait has returned to it.
CvWindow == {"cv_loaded", "cv_wake", "cv_wait", "cv_asleep"}

\* A wait that blocks whatever the counter holds.
WaitAlwaysBlocks(current, expected) == TRUE

\* atomic_wait::wait(&counter, value) blocks only if the counter still holds
\* value.
WaitBlocks(current, expected) == current = expected

\* The waiter's code: `let mut g = m.lock(); while !*g { g = cv.wait(g); }`.
\* With the flag set the Guard is dropped; otherwise Condvar::wait is called.
WaiterCheck(t) ==
    /\ m_role[t] = "waiter"
    /\ m_pc[t] = "holding"
    /\ m_pc' = [m_pc EXCEPT ![t] = IF m_value # 0 THEN "stored" ELSE "cv_enter"]
    /\ cv_notified' = [cv_notified EXCEPT ![t] = FALSE]
    /\ UNCHANGED <<m_state, m_value, m_waiters, m_role, m_local, m_locks,
                   cv_counter, cv_waiters, cv_value>>
    /\ UNCHANGED non_mutex_vars

\* Condvar::wait, line 28: let value = self.counter.load(Relaxed)
CvLoad(t) ==
    /\ m_pc[t] = "cv_enter"
    /\ cv_value' = [cv_value EXCEPT ![t] = cv_counter]
    /\ m_pc' = [m_pc EXCEPT ![t] = "cv_loaded"]
    /\ UNCHANGED <<m_state, m_value, m_waiters, m_role, m_local, m_locks,
                   cv_counter, cv_waiters, cv_notified>>
    /\ UNCHANGED non_mutex_vars

\* Condvar::wait, lines 30-31: drop(guard), the swap of Drop for Guard.
CvDropGuard(t) ==
    /\ m_pc[t] = "cv_loaded"
    /\ SwapRelease(t, "cv_wake", "cv_wait")
    /\ UNCHANGED <<m_value, m_waiters, m_role, m_local, m_locks, cv_counter,
                   cv_waiters, cv_value, cv_notified>>
    /\ UNCHANGED non_mutex_vars

\* Condvar::wait, line 31: drop(guard), the wake_one of Drop for Guard.
CvDropGuardWake(t) ==
    /\ m_pc[t] = "cv_wake"
    /\ WakeOneLocker(t, "cv_wait")
    /\ UNCHANGED <<m_state, m_value, m_role, m_local, m_locks, cv_counter,
                   cv_waiters, cv_value, cv_notified>>
    /\ UNCHANGED non_mutex_vars

\* Condvar::wait, lines 33-35: wait(&self.counter, value) blocks if the
\* counter still holds value and returns at once otherwise; then lock.lock().
CvWait(t) ==
    /\ m_pc[t] = "cv_wait"
    /\ IF WaitBlocks(cv_counter, cv_value[t])
         THEN /\ cv_waiters' = cv_waiters \cup {t}
              /\ m_pc' = [m_pc EXCEPT ![t] = "cv_asleep"]
         ELSE /\ cv_waiters' = cv_waiters
              /\ m_pc' = [m_pc EXCEPT ![t] = "lock"]
    /\ UNCHANGED <<m_state, m_value, m_waiters, m_role, m_local, m_locks,
                   cv_counter, cv_value, cv_notified>>
    /\ UNCHANGED non_mutex_vars

\* The setter's guarded code: `*m.lock() = true`.
SetterWrite(t) ==
    /\ m_role[t] = "setter"
    /\ m_pc[t] = "holding"
    /\ m_value' = 1
    /\ m_pc' = [m_pc EXCEPT ![t] = "stored"]
    /\ UNCHANGED <<m_state, m_waiters, m_role, m_local, m_locks, cv_counter,
                   cv_waiters, cv_value, cv_notified>>
    /\ UNCHANGED non_mutex_vars

\* A thread that notifies without taking the mutex calls notify_all.
NotifyCall(t) ==
    /\ m_role[t] = "notifier"
    /\ m_pc[t] = "idle"
    /\ m_locks[t] < LocksPerThread
    /\ m_locks' = [m_locks EXCEPT ![t] = @ + 1]
    /\ m_pc' = [m_pc EXCEPT ![t] = "notify_add"]
    /\ UNCHANGED <<m_state, m_value, m_waiters, m_role, m_local, cv_counter,
                   cv_waiters, cv_value, cv_notified>>
    /\ UNCHANGED non_mutex_vars

\* notify_one / notify_all, lines 19 and 23: self.counter.fetch_add(1, Relaxed)
NotifyAdd(t) ==
    /\ m_pc[t] = "notify_add"
    /\ cv_counter' = (cv_counter + 1) % (2 ^ CounterBits)
    /\ cv_notified' = [u \in LockThreads |-> cv_notified[u] \/ m_pc[u] \in CvWindow]
    /\ m_pc' = [m_pc EXCEPT ![t] = "notify_wake"]
    /\ UNCHANGED <<m_state, m_value, m_waiters, m_role, m_local, m_locks,
                   cv_waiters, cv_value>>
    /\ UNCHANGED non_mutex_vars

\* notify_one, line 20: wake_one(&self.counter), by the setter; notify_all,
\* line 24: wake_all(&self.counter), by the notifier. A woken thread goes on
\* to lock.lock().
NotifyWake(t) ==
    /\ m_pc[t] = "notify_wake"
    /\ IF cv_waiters = {}
         THEN /\ cv_waiters' = cv_waiters
              /\ m_pc' = [m_pc EXCEPT ![t] = "idle"]
         ELSE IF m_role[t] = "setter"
                THEN \E w \in cv_waiters :
                       /\ cv_waiters' = cv_waiters \ {w}
                       /\ m_pc' = [m_pc EXCEPT ![t] = "idle", ![w] = "lock"]
                ELSE /\ cv_waiters' = {}
                     /\ m_pc' = [u \in LockThreads |->
                                   IF u = t THEN "idle"
                                   ELSE IF u \in cv_waiters THEN "lock" ELSE m_pc[u]]
    /\ UNCHANGED <<m_state, m_value, m_waiters, m_role, m_local, m_locks,
                   cv_counter, cv_value, cv_notified>>
    /\ UNCHANGED non_mutex_vars

\* One step of thread t that uses the mutex and the condvar.
CondvarStep(t) ==
    \/ LockCall(t)
    \/ Lock(t)
    \/ LockSpin(t)
    \/ LockContendedCas(t)
    \/ LockContendedSwap(t)
    \/ LockContendedWait(t)
    \/ GuardDrop(t)
    \/ GuardDropWake(t)
    \/ WaiterCheck(t)
    \/ CvLoad(t)
    \/ CvDropGuard(t)
    \/ CvDropGuardWake(t)
    \/ CvWait(t)
    \/ SetterWrite(t)
    \/ NotifyCall(t)
    \/ NotifyAdd(t)
    \/ NotifyWake(t)

NextCondvar == \E t \in LockThreads : CondvarStep(t)

\* ----------------------------------------------------------------- rwlock

RwThreads == 1 .. NumRwThreads

\* u32::MAX, the value of the state that means write-locked, for a state word
\* of StateBits bits (TLC's integers cannot hold the 32-bit value; the
\* threads are too few for the reader count to come near it at either width).
U32Max == 2 ^ StateBits - 1

\* The threads that hold a ReadGuard, and those that hold a WriteGuard.
ReadGuards == {t \in RwThreads : rw_pc[t] = "reading"}

WriteGuards == {t \in RwThreads : rw_pc[t] = "writing"}

\* A reader that does not look at the state before it increments it.
ReadAlwaysAllowed(s) == TRUE

\* RwLock::read, line 29: if s < u32::MAX
ReadAllowed(s) == s < U32Max

\* RwLock::new(value); `active` are the threads that use the lock.
InitRw(active) ==
    /\ rw_state = 0
    /\ rw_waiters = {}
    /\ rw_pc = [t \in RwThreads |-> "idle"]
    /\ rw_s = [t \in RwThreads |-> 0]
    /\ rw_ops = [t \in RwThreads |-> 0]
    /\ rw_active = active
    /\ rw_panicked = FALSE

\* Where read goes with the state value s it holds: to the compare-exchange
\* if s < u32::MAX, to the wait if s == u32::MAX.
ReadNext(s) == IF ReadAllowed(s) THEN "read_cas" ELSE "read_wait"

\* RwLock::read, line 26: let mut s = self.state.load(Relaxed)
ReadCall(t) ==
    /\ t \in rw_active
    /\ rw_pc[t] = "idle"
    /\ rw_ops[t] < RwOpsPerThread
    /\ rw_ops' = [rw_ops EXCEPT ![t] = @ + 1]
    /\ rw_s' = [rw_s EXCEPT ![t] = rw_state]
    /\ rw_pc' = [rw_pc EXCEPT ![t] = ReadNext(rw_state)]
    /\ UNCHANGED <<rw_state, rw_waiters, rw_active, rw_panicked>>
    /\ UNCHANGED non_rw_vars

\* RwLock::read, lines 29-35: the assert on the number of readers and
\* compare_exchange_weak(s, s + 1); on failure s becomes the value found. (A
\* spurious failure finds s itself and repeats the iteration unchanged.)
ReadCas(t) ==
    /\ rw_pc[t] = "read_cas"
    /\ IF rw_s[t] = U32Max - 1
         THEN /\ rw_panicked' = TRUE
              /\ rw_pc' = [rw_pc EXCEPT ![t] = "panicked"]
              /\ UNCHANGED <<rw_state, rw_s>>
         ELSE /\ rw_state' = CompareExchange(rw_state, rw_s[t], (rw_s[t] + 1) % (U32Max + 1))
              /\ rw_s' = [rw_s EXCEPT ![t] = rw_state]
              /\ rw_pc' = [rw_pc EXCEPT ![t] =
                             IF rw_state = rw_s[t] THEN "reading" ELSE ReadNext(rw_state)]
              /\ UNCHANGED rw_panicked
    /\ UNCHANGED <<rw_waiters, rw_ops, rw_active>>
    /\ UNCHANGED non_rw_vars

\* RwLock::read, line 37: wait(&self.state, u32::MAX) blocks if the state is
\* u32::MAX and returns at once otherwise.
ReadWait(t) ==
    /\ rw_pc[t] = "read_wait"
    /\ IF rw_state = U32Max
         THEN /\ rw_waiters' = rw_waiters \cup {t}
              /\ rw_pc' = [rw_pc EXCEPT ![t] = "read_asleep"]
         ELSE /\ rw_waiters' = rw_waiters
              /\ rw_pc' = [rw_pc EXCEPT ![t] = "read_load"]
    /\ UNCHANGED <<rw_state, rw_s, rw_ops, rw_active, rw_panicked>>
    /\ UNCHANGED non_rw_vars

\* RwLock::read, line 38: s = self.state.load(Relaxed)
ReadLoad(t) ==
    /\ rw_pc[t] = "read_load"
    /\ rw_s' = [rw_s EXCEPT ![t] = rw_state]
    /\ rw_pc' = [rw_pc EXCEPT ![t] = ReadNext(rw_state)]
    /\ UNCHANGED <<rw_state, rw_waiters, rw_ops, rw_active, rw_panicked>>
    /\ UNCHANGED non_rw_vars

\* Drop for ReadGuard, line 85: state.fetch_sub(1, Release); the last reader
\* goes on to wake_one.
ReadGuardDrop(t) ==
    /\ rw_pc[t] = "reading"
    /\ rw_state' = (rw_state - 1) % (U32Max + 1)
    /\ rw_pc' = [rw_pc EXCEPT ![t] = IF rw_state = 1 THEN "read_wake" ELSE "idle"]
    /\ UNCHANGED <<rw_waiters, rw_s, rw_ops, rw_active, rw_panicked>>
    /\ UNCHANGED non_rw_vars

\* Where a thread woken from its wait goes on: a reader reloads the state, a
\* writer retries its compare-exchange.
Woken(p) == IF p = "read_asleep" THEN "read_load"
            ELSE IF p = "write_asleep" THEN "write_cas" ELSE p

\* Drop for ReadGuard, line 87: wake_one(&self.lock.state)
ReadGuardWake(t) ==
    /\ rw_pc[t] = "read_wake"
    /\ IF rw_waiters = {}
         THEN /\ rw_pc' = [rw_pc EXCEPT ![t] = "idle"]
              /\ rw_waiters' = rw_waiters
         ELSE \E w \in rw_waiters :
                /\ rw_waiters' = rw_waiters \ {w}
                /\ rw_pc' = [rw_pc EXCEPT ![t] = "idle", ![w] = Woken(rw_pc[w])]
    /\ UNCHANGED <<rw_state, rw_s, rw_ops, rw_active, rw_panicked>>
    /\ UNCHANGED non_rw_vars

\* A thread calls write.
WriteCall(t) ==
    /\ t \in rw_active
    /\ rw_pc[t] = "idle"
    /\ rw_ops[t] < RwOpsPerThread
    /\ rw_ops' = [rw_ops EXCEPT ![t] = @ + 1]
    /\ rw_pc' = [rw_pc EXCEPT ![t] = "write_cas"]
    /\ UNCHANGED <<rw_state, rw_waiters, rw_s, rw_active, rw_panicked>>
    /\ UNCHANGED non_rw_vars

\* RwLock::write, line 44: compare_exchange(0, u32::MAX); Err(s) carries the
\* value found.
WriteCas(t) ==
    /\ rw_pc[t] = "write_cas"
    /\ rw_state' = CompareExchange(rw_state, 0, U32Max)
    /\ rw_s' = [rw_s EXCEPT ![t] = rw_state]
    /\ rw_pc' = [rw_pc EXCEPT ![t] = IF rw_state = 0 THEN "writing" ELSE "write_wait"]
    /\ UNCHANGED <<rw_waiters, rw_ops, rw_active, rw_panicked>>
    /\ UNCHANGED non_rw_vars

\* RwLock::write, line 45: wait(&self.state, s) blocks if the state is still
\* s and returns at once otherwise.
WriteWait(t) ==
    /\ rw_pc[t] = "write_wait"
    /\ IF rw_state = rw_s[t]
         THEN /\ rw_waiters' = rw_waiters \cup {t}
              /\ rw_pc' = [rw_pc EXCEPT ![t] = "write_asleep"]
         ELSE /\ rw_waiters' = rw_waiters
              /\ rw_pc' = [rw_pc EXCEPT ![t] = "write_cas"]
    /\ UNCHANGED <<rw_state, rw_s, rw_ops, rw_active, rw_panicked>>
    /\ UNCHANGED non_rw_vars

\* Drop for WriteGuard, line 94: state.store(0, Release)
WriteGuardDrop(t) ==
    /\ rw_pc[t] = "writing"
    /\ rw_state' = 0
    /\ rw_pc' = [rw_pc EXCEPT ![t] = "write_wake"]
    /\ UNCHANGED <<rw_waiters, rw_s, rw_ops, rw_active, rw_panicked>>
    /\ UNCHANGED non_rw_vars

\* Drop for WriteGuard, line 96: wake_all(&self.lock.state)
WriteGuardWake(t) ==
    /\ rw_pc[t] = "write_wake"
    /\ rw_waiters' = {}
    /\ rw_pc' = [u \in RwThreads |->
                   IF u = t THEN "idle"
                   ELSE IF u \in rw_waiters THEN Woken(rw_pc[u]) ELSE rw_pc[u]]
    /\ UNCHANGED <<rw_state, rw_s, rw_ops, rw_active, rw_panicked>>
    /\ UNCHANGED non_rw_vars

NextRw ==
    \/ \E t \in RwThreads : ReadCall(t)
    \/ \E t \in RwThreads : ReadCas(t)
    \/ \E t \in RwThreads : ReadWait(t)
    \/ \E t \in RwThreads : ReadLoad(t)
    \/ \E t \in RwThreads : ReadGuardDrop(t)
    \/ \E t \in RwThreads : ReadGuardWake(t)
    \/ \E t \in RwThreads : WriteCall(t)
    \/ \E t \in RwThreads : WriteCas(t)
    \/ \E t \in RwThreads : WriteWait(t)
    \/ \E t \in RwThreads : WriteGuardDrop(t)
    \/ \E t \in RwThreads : WriteGuardWake(t)

\* No thread uses the RwLock.
InitRwUnused == InitRw({})

\* -------------------------------------------------------------------- arc

ArcThreads == 1 .. NumArcThreads

\* Number of live Arc handles the threads of S own.
RECURSIVE HandlesOf(_)
HandlesOf(S) ==
    IF S = {} THEN 0
    ELSE LET t == CHOOSE x \in S : TRUE IN arc_handles[t] + HandlesOf(S \ {t})

LiveHandles == HandlesOf(ArcThreads)

\* A drop that also frees when one other handle is left.
FreesTooEarly(old) == old <= 2

\* Drop for Arc, line 60: fetch_sub(1, Release) == 1
WasLast(old) == old = 1

\* Arc::new(data): ref_count 1, one handle, owned by the first thread.
InitArc(n) ==
    /\ arc_count = n
    /\ arc_handles = [t \in ArcThreads |-> IF t = 1 THEN n ELSE 0]
    /\ arc_pc = [t \in ArcThreads |-> "idle"]
    /\ arc_freed = 0
    /\ arc_data = 0

\* Clone for Arc: ref_count.fetch_add(1, Relaxed) and the new handle, which
\* the thread keeps or moves to another thread.
ArcClone(t, u) ==
    /\ arc_pc[t] = "idle"
    /\ arc_handles[t] > 0
    /\ LiveHandles < MaxHandles
    /\ arc_count' = arc_count + 1
    /\ arc_handles' = [arc_handles EXCEPT ![u] = @ + 1]
    /\ UNCHANGED <<arc_pc, arc_freed, arc_data>>
    /\ UNCHANGED non_arc_vars

\* Drop for Arc, line 60: ref_count.fetch_sub(1, Release); the thread that
\* took the count from 1 goes on to free the ArcData.
ArcDrop(t) ==
    /\ arc_pc[t] = "idle"
    /\ arc_handles[t] > 0
    /\ arc_count' = arc_count - 1
    /\ arc_handles' = [arc_handles EXCEPT ![t] = @ - 1]
    /\ arc_pc' = [arc_pc EXCEPT ![t] = IF WasLast(arc_count) THEN "freeing" ELSE "idle"]
    /\ UNCHANGED <<arc_freed, arc_data>>
    /\ UNCHANGED non_arc_vars

\* Drop for Arc, lines 61-64: fence(Acquire); drop(Box::from_raw(ptr)), which
\* destroys the shared value.
ArcFree(t) ==
    /\ arc_pc[t] = "freeing"
    /\ arc_freed' = arc_freed + 1
    /\ arc_pc' = [arc_pc EXCEPT ![t] = "idle"]
    /\ UNCHANGED <<arc_count, arc_handles, arc_data>>
    /\ UNCHANGED non_arc_vars

\* Arc::get_mut: Some(&mut data) if ref_count.load(Relaxed) == 1. (With any
\* other count it returns None and nothing changes.)
ArcGetMut(t) ==
    /\ arc_pc[t] = "idle"
    /\ arc_handles[t] > 0
    /\ arc_count = 1
    /\ arc_pc' = [arc_pc EXCEPT ![t] = "mut"]
    /\ UNCHANGED <<arc_count, arc_handles, arc_freed, arc_data>>
    /\ UNCHANGED non_arc_vars

\* A write through the &mut T obtained from get_mut.
ArcWriteMut(t) ==
    /\ arc_pc[t] = "mut"
    /\ arc_data' = t
    /\ UNCHANGED <<arc_count, arc_handles, arc_pc, arc_freed>>
    /\ UNCHANGED non_arc_vars

\* The &mut T obtained from get_mut goes out of scope; until then the handle
\* is mutably borrowed and can be neither cloned nor dropped.
ArcReleaseMut(t) ==
    /\ arc_pc[t] = "mut"
    /\ arc_pc' = [arc_pc EXCEPT ![t] = "idle"]
    /\ UNCHANGED <<arc_count, arc_handles, arc_freed, arc_data>>
    /\ UNCHANGED non_arc_vars

NextArc ==
    \/ \E t, u \in ArcThreads : ArcClone(t, u)
    \/ \E t \in ArcThreads : ArcDrop(t)
    \/ \E t \in ArcThreads : ArcFree(t)
    \/ \E t \in ArcThreads : ArcGetMut(t)
    \/ \E t \in ArcThreads : ArcWriteMut(t)
    \/ \E t \in ArcThreads : ArcReleaseMut(t)

\* No Arc is in use.
InitArcUnused == InitArc(0)

\* ---------------------------------------------------------------- channel

ChSenders == 1 .. NumSenders

ChReceivers == (NumSenders + 1) .. (NumSenders + NumReceivers)

ChThreads == ChSenders \cup ChReceivers

\* The messages are uniquely tagged: the k-th message sent by thread t.
Message(t, k) == <<t, k>>

\* VecDeque::push_back
PushBack(q, m) == Append(q, m)

\* VecDeque::pop_back on a non-empty deque: the element at the back, and the
\* deque without it.
PopBack(q) == [message |-> q[Len(q)], rest |-> SubSeq(q, 1, Len(q) - 1)]

\* Channel::new: an empty queue, nobody waiting; the threads of S send, the
\* threads of R receive.
InitChannel(S, R) ==
    /\ ch_queue = <<>>
    /\ ch_holder = 0
    /\ ch_waiters = {}
    /\ ch_pc = [t \in ChThreads |-> "idle"]
    /\ ch_sends = [t \in ChThreads |-> IF t \in S THEN 0 ELSE SendsPerThread]
    /\ ch_recvs = [t \in ChThreads |-> IF t \in R THEN 0 ELSE ReceivesPerThread]
    /\ ch_sent = <<>>
    /\ ch_received = <<>>

\* send, line 18: self.queue.lock() returns once the Mutex is free.
SendLock(t) ==
    /\ t \in ChSenders
    /\ ch_pc[t] = "idle"
    /\ ch_sends[t] < SendsPerThread
    /\ ch_holder = 0
    /\ ch_holder' = t
    /\ ch_sends' = [ch_sends EXCEPT ![t] = @ + 1]
    /\ ch_pc' = [ch_pc EXCEPT ![t] = "send_push"]
    /\ UNCHANGED <<ch_queue, ch_waiters, ch_recvs, ch_sent, ch_received>>
    /\ UNCHANGED non_ch_vars

\* send, line 18: push_back(message) under the guard, which is a temporary
\* of the statement and is dropped at its end.
SendPush(t) ==
    /\ ch_pc[t] = "send_push"
    /\ ch_holder = t
    /\ ch_queue' = PushBack(ch_queue, Message(t, ch_sends[t]))
    /\ ch_sent' = Append(ch_sent, Message(t, ch_sends[t]))
    /\ ch_holder' = 0
    /\ ch_pc' = [ch_pc EXCEPT ![t] = "send_notify"]
    /\ UNCHANGED <<ch_waiters, ch_sends, ch_recvs, ch_received>>
    /\ UNCHANGED non_ch_vars

\* send, line 19: item_ready.notify_one() wakes one of the waiting threads,
\* if there is any.
SendNotify(t) ==
    /\ ch_pc[t] = "send_notify"
    /\ IF ch_waiters = {}
         THEN /\ ch_pc' = [ch_pc EXCEPT ![t] = "idle"]
              /\ UNCHANGED ch_waiters
         ELSE \E w \in ch_waiters :
                /\ ch_waiters' = ch_waiters \ {w}
                /\ ch_pc' = [ch_pc EXCEPT ![t] = "idle", ![w] = "recv_relock"]
    /\ UNCHANGED <<ch_queue, ch_holder, ch_sends, ch_recvs, ch_sent, ch_received>>
    /\ UNCHANGED non_ch_vars

\* receive, line 23: self.queue.lock() returns once the Mutex is free.
RecvLock(t) ==
    /\ t \in ChReceivers
    /\ ch_pc[t] = "idle"
    /\ ch_recvs[t] < ReceivesPerThread
    /\ ch_holder = 0
    /\ ch_holder' = t
    /\ ch_recvs' = [ch_recvs EXCEPT ![t] = @ + 1]
    /\ ch_pc' = [ch_pc EXCEPT ![t] = "recv_pop"]
    /\ UNCHANGED <<ch_queue, ch_waiters, ch_sends, ch_sent, ch_received>>
    /\ UNCHANGED non_ch_vars

\* receive, lines 25-28: with a message in the queue pop_back takes it and
\* receive returns, dropping the guard; with none, item_ready.wait releases
\* the Mutex and blocks the thread in one step.
RecvPop(t) ==
    /\ ch_pc[t] = "recv_pop"
    /\ ch_holder = t
    /\ IF ch_queue # <<>>
         THEN /\ ch_queue' = PopBack(ch_queue).rest
              /\ ch_received' = Append(ch_received, PopBack(ch_queue).message)
              /\ ch_pc' = [ch_pc EXCEPT ![t] = "idle"]
              /\ UNCHANGED ch_waiters
         ELSE /\ ch_waiters' = ch_waiters \cup {t}
              /\ ch_pc' = [ch_pc EXCEPT ![t] = "recv_wait"]
              /\ UNCHANGED <<ch_queue, ch_received>>
    /\ ch_holder' = 0
    /\ UNCHANGED <<ch_sends, ch_recvs, ch_sent>>
    /\ UNCHANGED non_ch_vars

\* std::sync::Condvar::wait may return without a notification.
RecvSpuriousWake(t) ==
    /\ ch_pc[t] = "recv_wait"
    /\ t \in ch_waiters
    /\ ch_waiters' = ch_waiters \ {t}
    /\ ch_pc' = [ch_pc EXCEPT ![t] = "recv_relock"]
    /\ UNCHANGED <<ch_queue, ch_holder, ch_sends, ch_recvs, ch_sent, ch_received>>
    /\ UNCHANGED non_ch_vars

\* receive, line 28: wait returns with the Mutex locked again, and the loop
\* goes back to pop_back.
RecvRelock(t) ==
    /\ ch_pc[t] = "recv_relock"
    /\ ch_holder = 0
    /\ ch_holder' = t
    /\ ch_pc' = [ch_pc EXCEPT ![t] = "recv_pop"]
    /\ UNCHANGED <<ch_queue, ch_waiters, ch_sends, ch_recvs, ch_sent, ch_received>>
    /\ UNCHANGED non_ch_vars

NextChannel ==
    \/ \E t \in ChThreads : SendLock(t)
    \/ \E t \in ChThreads : SendPush(t)
    \/ \E t \in ChThreads : SendNotify(t)
    \/ \E t \in ChThreads : RecvLock(t)
    \/ \E t \in ChThreads : RecvPop(t)
    \/ \E t \in ChThreads : RecvSpuriousWake(t)
    \/ \E t \in ChThreads : RecvRelock(t)

\* No Channel is in use.
InitChannelUnused == InitChannel({}, {})

\* --------------------------------------- linked-list queue: specifications

\* The queue shared by NumProducers threads that push and NumConsumers
\* threads that pop, all running concurrently; its owner drops it in the end.
InitQueueShared == InitRingOf(1) /\ InitQueue(Producers, Consumers) /\ InitMutexUnused /\ InitRwUnused /\ InitArcUnused /\ InitChannelUnused

SpecQueue == InitQueueShared /\ [][NextQueue]_vars

\* The queue used by its owner alone, one call at a time, which is what the
\* signatures push(&mut self) and pop(&mut self) let safe code do.
InitQueueOwned == InitRingOf(1) /\ InitQueue({Owner}, {Owner}) /\ InitMutexUnused /\ InitRwUnused /\ InitArcUnused /\ InitChannelUnused

SpecQueueOwner == InitQueueOwned /\ [][NextQueue]_vars

\* The shared queue with threads that keep taking steps: as long as some step
\* of push, pop or drop is possible, one is eventually taken.
SpecQueueFair == SpecQueue /\ WF_vars(NextQueue)

\* ------------------------------------------------ mutex: specifications

\* NumLockThreads threads, each running `*m.lock() += 1` LocksPerThread times.
InitMutexCounter ==
    /\ InitRingOf(1)
    /\ InitQueue({}, {})
    /\ InitMutex([t \in LockThreads |-> "incrementer"])
    /\ InitRwUnused /\ InitArcUnused /\ InitChannelUnused

SpecMutex == InitMutexCounter /\ [][NextMutex]_vars

\* One step of thread t on the mutex.
MutexStep(t) ==
    \/ LockCall(t)
    \/ Lock(t)
    \/ LockSpin(t)
    \/ LockContendedCas(t)
    \/ LockContendedSwap(t)
    \/ LockContendedWait(t)
    \/ GuardRead(t)
    \/ GuardWrite(t)
    \/ GuardDrop(t)
    \/ GuardDropWake(t)

\* The same threads under a fair scheduler: a thread that can take a step
\* eventually takes one (so every holder eventually releases its Guard).
SpecMutexFair == SpecMutex /\ \A t \in LockThreads : WF_vars(MutexStep(t))

\* ---------------------------------------------- condvar: specifications

\* One thread waits on the condvar for the flag under the mutex, one thread
\* sets the flag under the mutex and calls notify_one, and the others call
\* notify_all without the mutex.
CondvarRoles ==
    [t \in LockThreads |-> IF t = 1 THEN "waiter" ELSE IF t = 2 THEN "setter" ELSE "notifier"]

InitCondvar ==
    /\ InitRingOf(1)
    /\ InitQueue({}, {})
    /\ InitMutex(CondvarRoles)
    /\ InitRwUnused /\ InitArcUnused /\ InitChannelUnused

SpecCondvar == InitCondvar /\ [][NextCondvar]_vars

\* The same threads under a fair scheduler.
SpecCondvarFair == SpecCondvar /\ \A t \in LockThreads : WF_vars(CondvarStep(t))

\* ----------------------------------------------- rwlock: specifications

\* NumRwThreads threads, each making RwOpsPerThread calls of read or write
\* and dropping the guard it got.
InitRwShared ==
    /\ InitRingOf(1)
    /\ InitQueue({}, {})
    /\ InitMutexUnused
    /\ InitRw(RwThreads)
    /\ InitArcUnused /\ InitChannelUnused

SpecRw == InitRwShared /\ [][NextRw]_vars

\* -------------------------------------------------- arc: specifications

\* One Arc created by the first thread; the threads clone, move, drop and
\* get_mut its handles.
InitArcShared ==
    /\ InitRingOf(1)
    /\ InitQueue({}, {})
    /\ InitMutexUnused
    /\ InitRwUnused
    /\ InitArc(1)
    /\ InitChannelUnused

SpecArc == InitArcShared /\ [][NextArc]_vars

\* ---------------------------------------------- channel: specifications

\* One Channel shared by the sending and the receiving threads.
InitChannelShared ==
    /\ InitRingOf(1)
    /\ InitQueue({}, {})
    /\ InitMutexUnused
    /\ InitRwUnused
    /\ InitArcUnused
    /\ InitChannel(ChSenders, ChReceivers)

SpecChannel == InitChannelShared /\ [][NextChannel]_vars

\* ------------------------------------------------------ specifications

\* fifo::new(capacity) for any capacity > 0 up to the bound.
InitRing == \E cap \in 1 .. MaxCapacity : InitRingOf(cap)

Init == InitRing /\ InitQueue({}, {}) /\ InitMutexUnused /\ InitRwUnused /\ InitArcUnused /\ InitChannelUnused

Next ==
    \/ Push
    \/ PusherWrite
    \/ PusherDrop
    \/ Pop
    \/ PopperDeref
    \/ PopperDropSlot
    \/ PopperDropStore
    \/ ConsumerDrop
    \/ ConsumerDropPop
    \/ ConsumerRelease
    \/ ProducerDrop

\* The ring buffer with one producer thread and one consumer thread.
Spec == Init /\ [][Next]_vars

\* --------------------------------------------------- ring buffer: claims

\* Every cursor position the producer has released so far was written
\* through its Pusher (the producer always calls write).
AllWritten == \A i \in 0 .. (producer_head - 1) : i \in written

\* C1: in every reachable state of the ring buffer of capacity C the shared
\* cursors satisfy 0 <= head - tail <= C.
C1_CursorsBounded ==
    /\ shared_tail <= shared_head
    /\ shared_head - shared_tail <= capacity

\* C1 witness: the buffer is full again after the consumer has released
\* elements, so both cursors have moved.
C1_Witness ==
    /\ capacity = MaxCapacity
    /\ shared_tail > 0
    /\ shared_head - shared_tail = capacity

\* C2: when the producer writes 0, 1, 2, ... through its Pushers, the values
\* the consumer reads come out in the order sent: the k-th element popped
\* reads as the k-th value sent (none lost, none reordered) and no element is
\* handed out twice, so a consumer that has collected N values holds 0..N-1.
C2_FifoOrder ==
    AllWritten =>
        /\ \A i \in 1 .. Len(got) : got[i].val = got[i].pos
        /\ \A i, j \in 1 .. Len(got) : i < j => got[i].pos < got[j].pos
        /\ Len(got) = MaxPush => [i \in 1 .. MaxPush |-> got[i].val] = [i \in 1 .. MaxPush |-> i - 1]

\* C2 witness: with capacity 1 the consumer has collected every value sent.
C2_Witness ==
    /\ capacity = 1
    /\ AllWritten
    /\ Len(got) = MaxPush
    /\ got[MaxPush].val = MaxPush - 1

\* C5: the shared head is never published past an unwritten slot: every
\* position between the shared tail and the shared head was written through
\* a Pusher, and a Popper is never bound to an unwritten slot.
C5_PublishedSlotsWritten ==
    /\ \A i \in shared_tail .. (shared_head - 1) : i \in written
    /\ cpc \in {"popper", "read"} => consumer_tail \in written

\* C9: a push reports "full" exactly when head minus the freshly loaded
\* shared tail equals the capacity, and a push that reports "full" leaves the
\* shared cursors, every slot, the producer's head and the caller's value as
\* they were and hands out no Pusher.
C9_PushFull ==
    [][Push =>
        /\ (push_result' = "full") <=> (producer_head - shared_tail = capacity)
        /\ push_result' = "full" =>
              /\ UNCHANGED <<shared_head, shared_tail, buffer, producer_head, to_send>>
              /\ ppc' = "idle"]_vars

\* C9 witness: a push has reported "full" on a buffer that filled up after
\* the consumer had already released an element.
C9_Witness ==
    /\ push_result = "full"
    /\ ppc = "idle"
    /\ shared_tail > 0
    /\ producer_head - shared_tail = capacity

\* C10: a pop returns "empty" exactly when the freshly loaded shared head
\* equals the consumer's tail, and a pop that returns "empty" leaves the
\* shared cursors, every slot and the consumer's tail as they were and hands
\* out no Popper.
C10_PopEmpty ==
    [][pop =>
        /\ (pop_result' = "empty") <=> (shared_head = consumer_tail)
        /\ pop_result' = "empty" =>
              /\ UNCHANGED <<shared_head, shared_tail, buffer, consumer_tail>>
              /\ cpc' = "idle"]_vars

\* C10 witness: a pop has returned "empty" on a buffer the consumer had
\* emptied itself.
C10_Witness ==
    /\ pop_result = "empty"
    /\ cpc = "idle"
    /\ cmode = "live"
    /\ consumer_tail > 0
    /\ shared_head = consumer_tail

\* C11: each element is consumed at most once: no element's destructor runs
\* twice, a destructor runs only on an element that was written, and every
\* released Popper has run exactly one destructor and advanced the tail by
\* one, so the elements destroyed number the positions the tail has passed.
C11_ConsumedOnce ==
    /\ \A v \in Values : destroyed[v] <= 1
    /\ \A v \in Values : destroyed[v] > 0 => v < to_send
    /\ Cardinality({v \in Values : destroyed[v] > 0}) =
          consumer_tail + (IF cpc = "slot_dropped" THEN 1 ELSE 0)

\* C12: dropping the consumer after values were pushed (every Pusher written)
\* runs the destructor of each pushed element exactly once and of nothing
\* else, and leaves the tail equal to the head: at the step that ends Drop for
\* Consumer the shared tail equals the shared head and exactly the elements
\* at the positions below it have been destroyed, once each.
C12_ConsumerDropDrains ==
    [][(cmode = "dropping" /\ cmode' = "dropped" /\ AllWritten') =>
          /\ shared_tail' = shared_head'
          /\ consumer_tail' = shared_tail'
          /\ \A v \in Values :
                destroyed'[v] = IF v < consumer_tail' THEN 1 ELSE 0]_vars

\* C12 witness: the consumer was dropped with the buffer full and nothing read:
\* capacity-many elements were destroyed by the drop, tail = head = capacity.
C12_Witness ==
    /\ cmode = "dropped"
    /\ capacity = MaxCapacity
    /\ AllWritten
    /\ got = <<>>
    /\ shared_head = capacity
    /\ shared_tail = shared_head
    /\ \A v \in 0 .. (capacity - 1) : destroyed[v] = 1

\* C13: when the last of the two handles has been dropped and Shared is freed,
\* every element still held in the buffer has had its destructor run: no slot
\* is left holding a written value.
C13_LastDropDestroysAll ==
    shared_owners = {} => \A i \in DOMAIN buffer : ~buffer[i].init

\* The producer holds a Pusher: from the Ok of push to the end of Drop for Pusher.
PusherOutstanding == ppc \in {"pusher", "written"}

\* The consumer holds a Popper: from the Some of pop to the end of Drop for Popper.
PopperOutstanding == cpc \in {"popper", "read", "slot_dropped"}

\* C21: the producer and the consumer never hold the same slot at the same
\* time: an outstanding Pusher (at head mod capacity) and an outstanding Popper
\* (at tail mod capacity) refer to different slot indices, for every capacity,
\* and the slot of a Pusher that has not written yet holds no value, so the
\* producer never overwrites a slot the consumer has not released.
C21_DisjointSlots ==
    /\ (PusherOutstanding /\ PopperOutstanding) =>
          SlotIndex(producer_head, capacity) # SlotIndex(consumer_tail, capacity)
    /\ ppc = "pusher" => ~buffer[SlotIndex(producer_head, capacity)].init

\* C21 witness: a Pusher and a Popper are outstanding together after the
\* cursors have wrapped around the buffer.
C21_Witness ==
    /\ PusherOutstanding
    /\ PopperOutstanding
    /\ capacity > 1
    /\ producer_head >= capacity
    /\ consumer_tail > 0

\* C23: the cached cursors are conservative: the producer's cached tail is at
\* most the shared tail and the consumer's cached head is at most the shared
\* head, so a Pusher is only ever reserved on a slot the consumer has released
\* and a Popper only on a slot the producer has published; and the shared
\* cursor is loaded only when the local view says full (push) or empty (pop):
\* otherwise the cache is kept and the accessor is handed out.
C23_CachesConservative ==
    /\ [](/\ cache_tail <= shared_tail
          /\ cache_head <= shared_head
          /\ PusherOutstanding => producer_head - shared_tail < capacity
          /\ PopperOutstanding => consumer_tail < shared_head)
    /\ [][(Push /\ ~IsFull(producer_head, cache_tail, capacity)) =>
             (cache_tail' = cache_tail /\ ppc' = "pusher")]_vars
    /\ [][(pop /\ ~IsEmpty(consumer_tail, cache_head)) =>
             (cache_head' = cache_head /\ cpc' = "popper")]_vars

\* C23 witness: both caches are stale after each side has reloaded at least
\* once, and the last push and the last pop both succeeded on those views.
C23_Witness ==
    /\ 0 < cache_tail
    /\ cache_tail < shared_tail
    /\ 0 < cache_head
    /\ cache_head < shared_head
    /\ push_result = "ok"
    /\ pop_result = "some"

\* ---------------------------------------------- linked-list queue: claims

\* No call of push or pop is in flight.
Quiescent == \A t \in Threads : pc[t] = "idle"

\* The queue as pop sees an empty one: head = tail and no successor.
QueueEmpty == q_head = q_tail /\ node_next[q_head] = NULL

\* The payloads whose push has been begun.
Enqueued == {Tag(t, k) : t \in pushers, k \in 1 .. PushesPerThread} \cap
            {v \in Payloads : v[2] <= pushed[v[1]]}

\* Number of push calls that have returned.
RECURSIVE CompletedPushes(_)
CompletedPushes(S) ==
    IF S = {} THEN 0
    ELSE LET t == CHOOSE x \in S : TRUE IN
           (IF pc[t] \in {"push_load_tail", "push_load_next", "push_cas", "push_swing"}
              THEN pushed[t] - 1 ELSE pushed[t])
           + CompletedPushes(S \ {t})

\* C3: the multiset of tags returned by dequeue equals the multiset of tags
\* enqueued: nothing is returned twice, nothing is returned that was not
\* enqueued, and once the threads are done and the queue is empty every
\* enqueued tag has been returned.
C3_NoLossNoDuplication ==
    /\ \A v \in Payloads : returned[v] <= 1
    /\ \A v \in Payloads : returned[v] > 0 => v \in Enqueued
    /\ (q_state = "live" /\ Quiescent /\ QueueEmpty)
          => \A v \in Enqueued : returned[v] = 1

\* C4: values enqueued by one producer are claimed from the head in that
\* producer's program order: among the successful CASes of head, those that
\* claim payloads of the same producer claim them in increasing order.
C4_ProducerOrder ==
    \A i, j \in 1 .. Len(claimed) :
        (/\ i < j
         /\ claimed[i] # None
         /\ claimed[j] # None
         /\ claimed[i][1] \in Enqueued
         /\ claimed[j][1] \in Enqueued
         /\ claimed[i][1][1] = claimed[j][1][1])
            => claimed[i][1][2] < claimed[j][1][2]

\* C6: every node a thread dereferences (the loaded head, the loaded tail,
\* the head's successor whose payload is read) is allocated at the moment of
\* the access.
C6_NoUseAfterFree == ~uaf

\* C7: each payload has exactly one owner at the end of its life: a payload
\* returned by dequeue is not destroyed by the queue, no payload is returned
\* or destroyed twice, and once the queue is dropped every enqueued payload
\* was either returned once or destroyed once.
C7_PayloadOwnedOnce ==
    /\ \A v \in Payloads : returned[v] + destroyed_q[v] <= 1
    /\ q_state = "dropped" => \A v \in Enqueued : returned[v] + destroyed_q[v] = 1

\* C8: every node is freed exactly once: no node is freed twice, while no
\* call is in flight the allocated nodes number the queued values plus one
\* (the sentinel), and after the queue is dropped no node remains allocated.
C8_NodesFreedOnce ==
    /\ ~double_free
    /\ (q_state = "live" /\ Quiescent)
          => Cardinality(allocated) = CompletedPushes(Threads) - Len(claimed) + 1
    /\ q_state = "dropped" => allocated = {}

\* C8 witness: the queue was dropped after its owner had dequeued the first
\* value, with the last value still queued for the drop to drain.
C8_Witness ==
    /\ q_state = "dropped"
    /\ pushed[Owner] = PushesPerThread
    /\ returned[Tag(Owner, 1)] = 1
    /\ returned[Tag(Owner, PushesPerThread)] = 0
    /\ allocated = {}

\* C15: a pop returns None only if the queue held no value at some instant of
\* the call: at the return of None no value remains whose push had returned
\* before the pop began and which no pop has claimed or returned since.
C15_EmptyOnlyIfEmpty ==
    [][\A t \in Threads :
          (pc[t] = "pop_check" /\ pc'[t] = "idle") => enq_before[t] \ Dequeued = {}]_vars

\* No call of push, pop or drop is in the middle of its loop.
NoCallInFlight == \A t \in Threads : pc[t] \in {"idle", "panicked", "done"}

\* C14: the queue is lock-free: when the threads keep taking steps no call
\* stays in its retry loop forever, so with finitely many calls to make the
\* system comes to rest with no call in flight.
C14_LockFree == <>[]NoCallInFlight

\* The nodes reached from node n in at most k steps along the next pointers.
RECURSIVE Chain(_, _)
Chain(n, k) ==
    IF n = NULL \/ k = 0 THEN {}
    ELSE {n} \cup Chain(node_next[n], k - 1)

\* C22: while the queue is in use the tail pointer refers to an allocated node
\* that is reached from the head along the next pointers, and that node is the
\* last linked node or its immediate predecessor.
C22_TailOnChain ==
    q_state = "live" =>
        /\ q_tail \in allocated
        /\ q_tail \in Chain(q_head, MaxNodes)
        /\ \/ node_next[q_tail] = NULL
           \/ node_next[node_next[q_tail]] = NULL

\* ------------------------------------------------------- mutex: claims

\* The places of a thread inside Mutex::lock, before it has the Guard.
LockingPcs == {"lock", "spin", "contended_cas", "contended_swap", "contended_wait",
               "asleep"}

\* Number of `+= 1` writes the threads of S have performed.
RECURSIVE WritesDone(_)
WritesDone(S) ==
    IF S = {} THEN 0
    ELSE LET t == CHOOSE x \in S : TRUE IN
           (IF m_pc[t] \in LockingPcs \cup {"holding", "loaded"}
              THEN m_locks[t] - 1 ELSE m_locks[t])
           + WritesDone(S \ {t})

\* C16: at most one Guard exists at any instant, the state word is 0 exactly
\* when no Guard exists, and no `*m.lock() += 1` is lost: the counter equals
\* the number of increments performed.
C16_MutualExclusion ==
    /\ Cardinality(Guards) <= 1
    /\ (m_state = 0) <=> (Guards = {})
    /\ m_value = WritesDone(LockThreads)

\* C16 witness: a thread holds the Guard in the middle of its increment while
\* two others sleep on the state word, after earlier increments.
C16_Witness ==
    /\ \E t \in LockThreads : m_pc[t] = "loaded"
    /\ Cardinality(m_waiters) = 2
    /\ m_state = 2
    /\ m_value > 0

\* C17: no wakeup is lost: a thread goes to sleep in wait only when the state
\* word is 2; a release that found the state at 2 wakes one sleeper if there
\* is one; under a fair scheduler no thread stays asleep forever while the
\* lock is free, and whenever a thread is trying to lock, some thread gets
\* the Guard.
C17_NoLostWakeup ==
    /\ [][\A t \in LockThreads :
             (m_pc[t] # "asleep" /\ m_pc'[t] = "asleep") => m_state = 2]_vars
    /\ [][\A t \in LockThreads :
             (m_pc[t] = "wake" /\ m_pc'[t] # "wake" /\ m_waiters # {})
                => Cardinality(m_waiters') = Cardinality(m_waiters) - 1]_vars
    /\ \A t \in LockThreads : []<>~(m_pc[t] = "asleep" /\ m_state = 0)
    /\ (\E t \in LockThreads : m_pc[t] \in LockingPcs) ~> (Guards # {})

\* C17 witness: a release has found the state at 2 and is about to wake one of
\* the sleepers; the lock is free while they are still asleep.
C17_Witness ==
    /\ \E t \in LockThreads : m_pc[t] = "wake"
    /\ Cardinality(m_waiters) = 2
    /\ m_state = 0

\* ----------------------------------------------------- condvar: claims

\* C19: Condvar::wait releases the guard it was given (the state word is 0
\* right after its drop), the thread that comes back from wait holds the
\* mutex alone, and a notification that increments the counter after the
\* waiter has loaded it, also one that arrives between the release of the
\* guard and the sleep, is not lost: under a fair scheduler the waiter
\* returns from wait holding the mutex.
C19_WaitNotLost ==
    /\ [](\A t \in LockThreads : t \in Guards => (m_state # 0 /\ Guards = {t}))
    /\ [][\A t \in LockThreads :
             (m_pc[t] = "cv_loaded" /\ m_pc'[t] # "cv_loaded") => m_state' = 0]_vars
    /\ \A t \in LockThreads : cv_notified[t] ~> (m_pc[t] = "holding")

\* C19 witness: the notification has arrived after the waiter released its
\* guard and before it went to sleep: the waiter is about to call
\* wait(&counter, value) with a counter that no longer holds value.
C19_Witness ==
    \E t \in LockThreads :
        /\ m_role[t] = "waiter"
        /\ m_pc[t] = "cv_wait"
        /\ cv_notified[t]
        /\ cv_counter # cv_value[t]

\* ------------------------------------------------------ rwlock: claims

\* C18: either no WriteGuard exists, or exactly one exists and no ReadGuard
\* does; the state equals the number of live ReadGuards while not
\* write-locked and u32::MAX exactly while a WriteGuard exists.
C18_ReadersOrWriter ==
    /\ Cardinality(WriteGuards) <= 1
    /\ WriteGuards # {} => ReadGuards = {}
    /\ rw_state = (IF WriteGuards # {} THEN U32Max ELSE Cardinality(ReadGuards))
    /\ (rw_state = U32Max) <=> (WriteGuards # {})

\* C18 witness: two ReadGuards are live while a writer sleeps in its wait, and
\* a thread has held a guard before.
C18_Witness ==
    /\ Cardinality(ReadGuards) = 2
    /\ \E t \in RwThreads : rw_pc[t] = "write_asleep"
    /\ \E t \in RwThreads : rw_pc[t] = "reading" /\ rw_ops[t] = RwOpsPerThread

\* --------------------------------------------------------- arc: claims

\* C20: the reference count equals the number of live handles; the shared
\* value is destroyed at most once, never while a handle is alive, and it has
\* been destroyed once the last handle is gone and its drop has finished;
\* the &mut T of get_mut exists only while the count is one and its holder
\* owns the only handle.
C20_ArcCounts ==
    /\ arc_count = LiveHandles
    /\ arc_freed <= 1
    /\ arc_freed = 1 => LiveHandles = 0
    /\ (LiveHandles = 0 /\ \A t \in ArcThreads : arc_pc[t] # "freeing") => arc_freed = 1
    /\ \A t \in ArcThreads :
          arc_pc[t] = "mut" => (arc_count = 1 /\ arc_handles[t] = 1 /\ LiveHandles = 1)

\* C20 witness: the value was destroyed by a thread other than the one that
\* created the Arc, after it had been written through get_mut.
C20_Witness ==
    /\ arc_freed = 1
    /\ arc_count = 0
    /\ arc_data > 1

\* ----------------------------------------------------- channel: claims

\* C24: the Channel delivers every message exactly once and in send order:
\* each receive returns the oldest message that was sent and not yet
\* received, so the messages received so far are, in order, the first
\* messages that were sent.
C24_ChannelFifo ==
    /\ Len(ch_received) <= Len(ch_sent)
    /\ \A i \in 1 .. Len(ch_received) : ch_received[i] = ch_sent[i]

====
